---- MODULE Spec2Model ----
(***************************************************************************)
(* Model of the emmet language server (src/src/server.ts): the session     *)
(* state (configuration capability, process-wide settings, per-document    *)
(* settings cache, documents tracked by the sync layer) and one action per *)
(* protocol handler.  Strings are sequences of one-character strings.      *)
(*                                                                         *)
(* The emmet engine is an external package.  It is modelled by what the    *)
(* server relies on: `extract` scans backwards from the (clamped) cursor   *)
(* over abbreviation characters, and the expansion of an abbreviation is a *)
(* symbolic term naming the stringify function, the abbreviation and the   *)
(* output.field hook in force.  Two characters stand for abbreviations     *)
(* that only one grammar accepts: ">" is rejected by the stylesheet        *)
(* parser, "%" by the markup parser.                                       *)
(***************************************************************************)
EXTENDS Integers, Sequences, FiniteSets, TLC

VARIABLES
    phase,                      \* session state of the connection
    hasConfigurationCapability, \* server.ts:31
    globalSettings,             \* server.ts:151
    documentSettings,           \* server.ts:154, Map<string, Thenable<Settings>>
    documents,                  \* server.ts:29, TextDocuments
    issued,                     \* number of workspace/configuration requests sent
    msg,                        \* the message handled by the last step
    response,                   \* what the handler returned for msg
    console,                    \* what the handler wrote to connection.console
    extractCalls                \* the calls of emmet's extract made by the handler

vars == <<phase, hasConfigurationCapability, globalSettings, documentSettings,
          documents, issued, msg, response, console, extractCalls>>

----------------------------------------------------------------------------
(* Bounds of the model *)

MaxLine == 1
MaxChar == 2
MaxIssued == 2

(* JavaScript's undefined and null *)
Undefined == [js |-> "undefined"]
Null == [js |-> "null"]
Array(items) == [js |-> "array", items |-> items]

URIs == {"file:///a", "file:///b"}
LanguageIds == {"html", "css"}

(* Document texts the client may send *)
Texts ==
    { <<>>,
      <<"d", ">", "\n", "%">>,
      <<" ", "d", "\r", "\n", ">">> }

(* Values a client may put in html_filetypes / css_filetypes *)
FiletypeLists ==
    { Array(<<"css">>), Array(<<"html", "css">>) }

(* Values of change.settings: null, or an object with either list present or absent *)
SettingsValues ==
    {Null} \cup [js : {"object"},
                 html_filetypes : FiletypeLists \cup {Undefined},
                 css_filetypes  : FiletypeLists \cup {Undefined}]

defaultSettings ==
    [js |-> "object",
     html_filetypes |-> Array(<<"html">>),
     css_filetypes |-> Array(<<"css">>)]

Min(a, b) == IF a < b THEN a ELSE b
Max(a, b) == IF a > b THEN a ELSE b

----------------------------------------------------------------------------
(* JavaScript library functions used by the handlers *)

(* Array.prototype.indexOf: index of the first element equal to x, else -1 *)
IndexOf(list, x) ==
    LET items == list.items
    IN IF \E i \in 1..Len(items) : items[i] = x
       THEN (CHOOSE i \in 1..Len(items) :
                items[i] = x /\ \A j \in 1..(i - 1) : items[j] # x) - 1
       ELSE -1

RECURSIVE SplitFrom(_, _, _, _)
SplitFrom(content, i, cur, acc) ==
    IF i > Len(content) THEN Append(acc, cur)
    ELSE IF content[i] = "\n"
         THEN LET line == IF Len(cur) > 0 /\ cur[Len(cur)] = "\r"
                          THEN SubSeq(cur, 1, Len(cur) - 1)
                          ELSE cur
              IN SplitFrom(content, i + 1, <<>>, Append(acc, line))
         ELSE SplitFrom(content, i + 1, Append(cur, content[i]), acc)

(* content.split(/\r?\n/g) *)
SplitLines(content) == SplitFrom(content, 1, <<>>, <<>>)

(* String(content.split(/\r?\n/g)[linenr]) *)
LineAt(content, linenr) ==
    LET lines == SplitLines(content)
    IN IF linenr + 1 \in 1..Len(lines)
       THEN lines[linenr + 1]
       ELSE <<"u", "n", "d", "e", "f", "i", "n", "e", "d">>

----------------------------------------------------------------------------
(* The emmet engine *)

Operators == {">"}
Letters == {"d", "u", "n", "e", "f", "i"}
IsAbbreviation(c) == c \in Letters \cup Operators \cup {"%"}

RECURSIVE ScanBack(_, _)
ScanBack(line, pos) ==
    IF pos > 0 /\ IsAbbreviation(line[pos]) THEN ScanBack(line, pos - 1) ELSE pos

RECURSIVE StripOperators(_)
StripOperators(s) ==
    IF Len(s) > 0 /\ Head(s) \in Operators THEN StripOperators(Tail(s)) ELSE s

(* extract(line, char, opts) *)
extract(line, char, opts) ==
    LET pos == Min(Len(line), Max(0, char))
        from == ScanBack(line, pos)
        abbreviation == StripOperators(SubSeq(line, from + 1, pos))
    IN IF from = pos THEN Undefined
       ELSE [abbreviation |-> abbreviation,
             location |-> pos - Len(abbreviation),
             start |-> pos - Len(abbreviation),
             end |-> pos]

Contains(s, c) == \E i \in 1..Len(s) : s[i] = c

(* the output.field hook of getCssSnippet / getHtmlSnippet *)
SnippetField == "${index:placeholder}"

(* the engine's own rendering of fields, used when output.field is not set *)
DefaultField == "engine default"
PreviewOf(textResult) == [textResult EXCEPT !.field = DefaultField]

(* parseStylesheet + stringifyStylesheet under cssConfig *)
getCssSnippet(abbreviation) ==
    IF Contains(abbreviation, ">")
    THEN [threw |-> TRUE, error |-> "Error: Unexpected character"]
    ELSE [threw |-> FALSE,
          value |-> [fn |-> "stringifyStylesheet", type |-> "stylesheet",
                     abbreviation |-> abbreviation, field |-> SnippetField]]

(* parseMarkup + stringifyMarkup under htmlconfig *)
getHtmlSnippet(abbreviation) ==
    IF Contains(abbreviation, "%")
    THEN [threw |-> TRUE, error |-> "Error: Unexpected character"]
    ELSE [threw |-> FALSE,
          value |-> [fn |-> "stringifyMarkup", type |-> "markup",
                     abbreviation |-> abbreviation, field |-> SnippetField]]

----------------------------------------------------------------------------
(* Completion assembly *)

(* Variant: the documentation is a second rendering, made without the hook *)
buildCompletionItemPreview(abbreviation, textResult, range) ==
    [insertTextFormat |-> "Snippet",
     label |-> abbreviation,
     detail |-> abbreviation,
     documentation |-> PreviewOf(textResult),
     textEdit |-> [range |-> range, newText |-> textResult],
     kind |-> "Snippet",
     data |-> [range |-> range, textResult |-> textResult]]

buildCompletionItem(abbreviation, textResult, range) ==
    [insertTextFormat |-> "Snippet",
     label |-> abbreviation,
     detail |-> abbreviation,
     documentation |-> textResult,
     textEdit |-> [range |-> range, newText |-> textResult],
     kind |-> "Snippet",
     data |-> [range |-> range, textResult |-> textResult]]

buildRange(linenr, left, right) ==
    [start |-> [line |-> linenr, character |-> left],
     end |-> [line |-> linenr, character |-> right]]

(* opts = {} when the caller passes none; emmet's default syntax type is markup *)
NoOpts == [js |-> "object"]
StylesheetOpts == [js |-> "object", type |-> "stylesheet"]
IsStylesheet(opts) == "type" \in DOMAIN opts /\ opts.type = "stylesheet"
TypeOf(opts) == IF "type" \in DOMAIN opts THEN opts.type ELSE "markup"

(* let left = extractPosition.start; let right = extractPosition.start *)
LeftOf(extractPosition) == extractPosition.start
(* Variant: the range ends at the cursor *)
RightAtCursor(extractPosition) == extractPosition.end
RightOf(extractPosition) == extractPosition.start

(* Variant: the grammar option is ignored when rendering *)
SnippetAlwaysMarkup(opts, abbreviation) == getHtmlSnippet(abbreviation)

(* opts.type == 'stylesheet' ? getCssSnippet(abbreviation) : getHtmlSnippet(abbreviation) *)
SnippetFor(opts, abbreviation) ==
    IF IsStylesheet(opts) THEN getCssSnippet(abbreviation) ELSE getHtmlSnippet(abbreviation)

(* lines 236-245: the item built from an extracted abbreviation and its   *)
(* rendering, or the error the rendering threw                              *)
ItemFrom(linenr, extractPosition, textResult, call) ==
    IF textResult.threw
    THEN [threw |-> TRUE, error |-> textResult.error, item |-> Undefined,
          logged |-> <<>>, calls |-> <<call>>]
    ELSE [threw |-> FALSE,
          item |-> buildCompletionItem(extractPosition.abbreviation, textResult.value,
                                       buildRange(linenr, LeftOf(extractPosition),
                                                  RightOf(extractPosition))),
          logged |-> <<>>, calls |-> <<call>>]

(* line 235: if (extractPosition?.abbreviation != undefined) *)
IfExtracted(linenr, opts, extractPosition, call) ==
    IF extractPosition = Undefined
    THEN [threw |-> FALSE, item |-> Undefined, logged |-> <<>>, calls |-> <<call>>]
    ELSE ItemFrom(linenr, extractPosition,
                  SnippetFor(opts, extractPosition.abbreviation), call)

(* The try block of getCompeletionItem: the item or undefined, or the error *)
(* thrown, with the extract call made.                                      *)
getCompeletionItemTry(linenr, line, char, opts) ==
    IfExtracted(linenr, opts, extract(line, char, opts),
                [line |-> line, char |-> char, type |-> TypeOf(opts)])

(* Variant: no catch, an expansion error propagates to the caller *)
getCompeletionItemRethrow(try) == try

(* Variant: an extraction miss is logged like an error *)
getCompeletionItemCatchLogMiss(try) ==
    IF try.threw
    THEN [threw |-> FALSE, item |-> Undefined,
          logged |-> try.logged \o <<"ERR: " \o try.error>>, calls |-> try.calls]
    ELSE IF try.item = Undefined
    THEN [try EXCEPT !.logged = @ \o <<"ERR: no abbreviation">>]
    ELSE try

(* The catch of getCompeletionItem: log, and fall through returning undefined *)
getCompeletionItemCatch(try) ==
    IF try.threw
    THEN [threw |-> FALSE, item |-> Undefined,
          logged |-> try.logged \o <<"ERR: " \o try.error>>, calls |-> try.calls]
    ELSE try

getCompeletionItem(linenr, line, char, opts) ==
    getCompeletionItemCatch(getCompeletionItemTry(linenr, line, char, opts))

(* Variant: only the first item found is kept *)
PushIfEmpty(result, completion) ==
    IF completion.item # Undefined /\ result = <<>>
    THEN Append(result, completion.item)
    ELSE result

(* if (completionItem) result.push(completionItem) *)
Push(result, completion) ==
    IF completion.item # Undefined THEN Append(result, completion.item) ELSE result

(* Variant: list.indexOf(languageId) > 0 *)
IncludesAfterFirst(list, languageId) == IndexOf(list, languageId) > 0

(* list.indexOf(languageId) != -1 *)
Includes(list, languageId) == IndexOf(list, languageId) # -1

TypeError == "TypeError: Cannot read properties of undefined"
NotRouted == [threw |-> FALSE, item |-> Undefined, logged |-> <<>>, calls |-> <<>>]
Throw(error, logged, calls) ==
    [threw |-> TRUE, error |-> error, logged |-> logged, calls |-> calls]

(* line 281: return result, after both branches *)
Collect(html, css) ==
    IF css.threw
    THEN Throw(css.error, html.logged \o css.logged, html.calls \o css.calls)
    ELSE [threw |-> FALSE,
          result |-> Push(Push(<<>>, html), css),
          logged |-> html.logged \o css.logged,
          calls |-> html.calls \o css.calls]

(* Variant: a missing css_filetypes list is read as an empty list *)
RouteStylesheetLenient(settings, languageId, linenr, line, character, html) ==
    IF html.threw
    THEN Throw(html.error, html.logged, html.calls)
    ELSE IF settings.css_filetypes = Undefined
    THEN Collect(html, NotRouted)
    ELSE Collect(html,
                 IF Includes(settings.css_filetypes, languageId)
                 THEN getCompeletionItem(linenr, line, character, StylesheetOpts)
                 ELSE NotRouted)

(* lines 274-279, given the outcome html of lines 268-273 *)
RouteStylesheet(settings, languageId, linenr, line, character, html) ==
    IF html.threw
    THEN Throw(html.error, html.logged, html.calls)
    ELSE IF settings.css_filetypes = Undefined
    THEN Throw(TypeError, html.logged, html.calls)
    ELSE Collect(html,
                 IF Includes(settings.css_filetypes, languageId)
                 THEN getCompeletionItem(linenr, line, character, StylesheetOpts)
                 ELSE NotRouted)

(* Variant: with configuration pull supported the pushed settings are ignored *)
RouteMarkupScoped(settings, languageId, linenr, line, character) ==
    IF hasConfigurationCapability
    THEN RouteStylesheet(defaultSettings, languageId, linenr, line, character,
                         IF Includes(defaultSettings.html_filetypes, languageId)
                         THEN getCompeletionItem(linenr, line, character, NoOpts)
                         ELSE NotRouted)
    ELSE IF settings = Null \/ settings.html_filetypes = Undefined
    THEN Throw(TypeError, <<>>, <<>>)
    ELSE RouteStylesheet(settings, languageId, linenr, line, character,
                         IF Includes(settings.html_filetypes, languageId)
                         THEN getCompeletionItem(linenr, line, character, NoOpts)
                         ELSE NotRouted)

(* lines 268-279 *)
RouteMarkup(settings, languageId, linenr, line, character) ==
    IF settings = Null \/ settings.html_filetypes = Undefined
    THEN Throw(TypeError, <<>>, <<>>)
    ELSE RouteStylesheet(settings, languageId, linenr, line, character,
                         IF Includes(settings.html_filetypes, languageId)
                         THEN getCompeletionItem(linenr, line, character, NoOpts)
                         ELSE NotRouted)

(* The try block of connection.onCompletion *)
onCompletionTry(settings, docs, uri, linenr, character) ==
    IF uri \notin DOMAIN docs
    THEN Throw("failed to find document", <<>>, <<>>)
    ELSE RouteMarkup(settings, docs[uri].languageId, linenr,
                     LineAt(docs[uri].text, linenr), character)

(* Variant: no catch, an error raised in the try block reaches the transport *)
onCompletionRethrow(try) ==
    IF try.threw
    THEN [response |-> [fault |-> try.error], logged |-> try.logged, calls |-> try.calls]
    ELSE [response |-> [result |-> try.result], logged |-> try.logged,
          calls |-> try.calls]

(* Variant: the catch swallows the error without logging it *)
onCompletionCatchSilent(try) ==
    IF try.threw
    THEN [response |-> [result |-> <<>>], logged |-> try.logged, calls |-> try.calls]
    ELSE [response |-> [result |-> try.result], logged |-> try.logged,
          calls |-> try.calls]

(* The catch of connection.onCompletion: log the error, then return [] *)
onCompletionCatch(try) ==
    IF try.threw
    THEN [response |-> [result |-> <<>>],
          logged |-> try.logged \o <<"ERR: " \o try.error>>,
          calls |-> try.calls]
    ELSE [response |-> [result |-> try.result], logged |-> try.logged,
          calls |-> try.calls]

(* connection.onCompletion: the reply, the log lines, the extract calls *)
onCompletion(settings, docs, uri, linenr, character) ==
    onCompletionCatch(onCompletionTry(settings, docs, uri, linenr, character))

----------------------------------------------------------------------------
(* Settings store *)

(* connection.workspace.getConfiguration({scopeUri, section}): the n-th request sent *)
Retrieval(resource, n) ==
    [scopeUri |-> resource, section |-> "languageServerExample", request |-> n]

DropKey(map, key) == [k \in DOMAIN map \ {key} |-> map[k]]

----------------------------------------------------------------------------
(* The state after the module is loaded *)

NoMessage == [method |-> "none"]
NoResponse == [none |-> TRUE]
EmptyMap == [k \in {} |-> Undefined]

Init ==
    /\ phase = "Uninitialized"
    /\ hasConfigurationCapability = FALSE
    /\ globalSettings = defaultSettings
    /\ documentSettings = EmptyMap
    /\ documents = EmptyMap
    /\ issued = 0
    /\ msg = NoMessage
    /\ response = NoResponse
    /\ console = <<>>
    /\ extractCalls = <<>>

(* const triggerCharacters, lines 52-102 *)
triggerCharacters ==
    <<">", ")", "]", "}", "@", "*", "$", "+",
      "a", "b", "c", "d", "e", "f", "g", "h", "i", "j", "k", "l", "m",
      "n", "o", "p", "q", "r", "s", "t", "u", "v", "w", "x", "y", "z",
      "0", "1", "2", "3", "4", "5", "6", "7", "8", "9">>

(* const result: InitializeResult, lines 104-120 *)
InitializeResult(workspaceFolders) ==
    LET capabilities ==
            [textDocumentSync |-> "Incremental",
             completionProvider |-> [resolveProvider |-> TRUE,
                                     triggerCharacters |-> triggerCharacters]]
    IN IF workspaceFolders
       THEN [capabilities |->
                [textDocumentSync |-> capabilities.textDocumentSync,
                 completionProvider |-> capabilities.completionProvider,
                 workspace |-> [workspaceFolders |-> [supported |-> TRUE]]]]
       ELSE [capabilities |-> capabilities]

(* connection.onInitialize *)
Initialize(configuration, workspaceFolders) ==
    /\ phase = "Uninitialized"
    /\ phase' = "Initialized"
    /\ hasConfigurationCapability' = configuration
    /\ msg' = [method |-> "initialize", configuration |-> configuration,
               workspaceFolders |-> workspaceFolders]
    /\ response' = InitializeResult(workspaceFolders)
    /\ console' = <<>>
    /\ extractCalls' = <<>>
    /\ UNCHANGED <<globalSettings, documentSettings, documents, issued>>

(* textDocument/didOpen, handled by TextDocuments *)
DidOpen(uri, languageId, text) ==
    /\ phase = "Initialized"
    /\ uri \notin DOMAIN documents
    /\ documents' = [u \in DOMAIN documents \cup {uri} |->
                        IF u = uri THEN [languageId |-> languageId, text |-> text]
                        ELSE documents[u]]
    /\ msg' = [method |-> "textDocument/didOpen", uri |-> uri]
    /\ response' = NoResponse
    /\ console' = <<>>
    /\ extractCalls' = <<>>
    /\ UNCHANGED <<phase, hasConfigurationCapability, globalSettings,
                   documentSettings, issued>>

(* textDocument/didChange, handled by TextDocuments *)
DidChange(uri, text) ==
    /\ phase = "Initialized"
    /\ uri \in DOMAIN documents
    /\ documents[uri].text # text
    /\ documents' = [documents EXCEPT ![uri].text = text]
    /\ msg' = [method |-> "textDocument/didChange", uri |-> uri]
    /\ response' = NoResponse
    /\ console' = <<>>
    /\ extractCalls' = <<>>
    /\ UNCHANGED <<phase, hasConfigurationCapability, globalSettings,
                   documentSettings, issued>>

(* Variant: the close handler leaves the settings cache alone *)
DidCloseKeepSettings(uri) ==
    /\ phase = "Initialized"
    /\ uri \in DOMAIN documents
    /\ documents' = DropKey(documents, uri)
    /\ msg' = [method |-> "textDocument/didClose", uri |-> uri]
    /\ response' = NoResponse
    /\ console' = <<>>
    /\ extractCalls' = <<>>
    /\ UNCHANGED <<phase, hasConfigurationCapability, globalSettings,
                   documentSettings, issued>>

(* textDocument/didClose: TextDocuments drops the document, then documents.onDidClose *)
DidClose(uri) ==
    /\ phase = "Initialized"
    /\ uri \in DOMAIN documents
    /\ documents' = DropKey(documents, uri)
    /\ documentSettings' = DropKey(documentSettings, uri)
    /\ msg' = [method |-> "textDocument/didClose", uri |-> uri]
    /\ response' = NoResponse
    /\ console' = <<>>
    /\ extractCalls' = <<>>
    /\ UNCHANGED <<phase, hasConfigurationCapability, globalSettings, issued>>

(* Variant: a configuration change resets all cached document settings *)
DidChangeConfigurationClear(settings) ==
    /\ phase = "Initialized"
    /\ globalSettings' = settings
    /\ documentSettings' = EmptyMap
    /\ msg' = [method |-> "workspace/didChangeConfiguration"]
    /\ response' = NoResponse
    /\ console' = <<>>
    /\ extractCalls' = <<>>
    /\ UNCHANGED <<phase, hasConfigurationCapability, documents, issued>>

(* connection.onDidChangeConfiguration *)
DidChangeConfiguration(settings) ==
    /\ phase = "Initialized"
    /\ globalSettings' = settings
    /\ msg' = [method |-> "workspace/didChangeConfiguration"]
    /\ response' = NoResponse
    /\ console' = <<>>
    /\ extractCalls' = <<>>
    /\ UNCHANGED <<phase, hasConfigurationCapability, documentSettings,
                   documents, issued>>

(* the reply goes to the transport, the log lines to the console *)
Respond(out) ==
    /\ response' = out.response
    /\ console' = out.logged
    /\ extractCalls' = out.calls

(* Variant: the handler looks the document's settings up, filling the cache *)
CompletionFetching(uri, linenr, character) ==
    /\ phase = "Initialized"
    /\ Respond(onCompletion(globalSettings, documents, uri, linenr, character))
    /\ msg' = [method |-> "textDocument/completion", uri |-> uri,
               line |-> linenr, character |-> character]
    /\ IF hasConfigurationCapability /\ uri \notin DOMAIN documentSettings
       THEN /\ issued < MaxIssued
            /\ documentSettings' =
                   [u \in DOMAIN documentSettings \cup {uri} |->
                       IF u = uri THEN Retrieval(uri, issued + 1)
                       ELSE documentSettings[u]]
            /\ issued' = issued + 1
       ELSE UNCHANGED <<documentSettings, issued>>
    /\ UNCHANGED <<phase, hasConfigurationCapability, globalSettings, documents>>

(* connection.onCompletion *)
Completion(uri, linenr, character) ==
    /\ phase = "Initialized"
    /\ Respond(onCompletion(globalSettings, documents, uri, linenr, character))
    /\ msg' = [method |-> "textDocument/completion", uri |-> uri,
               line |-> linenr, character |-> character]
    /\ UNCHANGED <<phase, hasConfigurationCapability, globalSettings,
                   documentSettings, documents, issued>>

(* Variant: the cache is not consulted, every lookup sends a new request *)
GetDocumentSettingsRefetch(resource) ==
    /\ phase = "Initialized"
    /\ IF ~hasConfigurationCapability
       THEN /\ response' = [thenable |-> [resolved |-> globalSettings]]
            /\ UNCHANGED <<documentSettings, issued>>
       ELSE /\ issued < MaxIssued
            /\ LET result == Retrieval(resource, issued + 1)
               IN /\ documentSettings' =
                        [u \in DOMAIN documentSettings \cup {resource} |->
                            IF u = resource THEN result ELSE documentSettings[u]]
                  /\ response' = [thenable |-> result]
            /\ issued' = issued + 1
    /\ msg' = [method |-> "getDocumentSettings", uri |-> resource]
    /\ console' = <<>>
    /\ extractCalls' = <<>>
    /\ UNCHANGED <<phase, hasConfigurationCapability, globalSettings, documents>>

(* a call of getDocumentSettings(resource) *)
GetDocumentSettings(resource) ==
    /\ phase = "Initialized"
    /\ IF ~hasConfigurationCapability
       THEN /\ response' = [thenable |-> [resolved |-> globalSettings]]
            /\ UNCHANGED <<documentSettings, issued>>
       ELSE IF resource \in DOMAIN documentSettings
            THEN /\ response' = [thenable |-> documentSettings[resource]]
                 /\ UNCHANGED <<documentSettings, issued>>
            ELSE /\ issued < MaxIssued
                 /\ LET result == Retrieval(resource, issued + 1)
                    IN /\ documentSettings' =
                             [u \in DOMAIN documentSettings \cup {resource} |->
                                 IF u = resource THEN result ELSE documentSettings[u]]
                       /\ response' = [thenable |-> result]
                 /\ issued' = issued + 1
    /\ msg' = [method |-> "getDocumentSettings", uri |-> resource]
    /\ console' = <<>>
    /\ extractCalls' = <<>>
    /\ UNCHANGED <<phase, hasConfigurationCapability, globalSettings, documents>>

Next ==
    \/ \E configuration \in BOOLEAN, workspaceFolders \in BOOLEAN :
          Initialize(configuration, workspaceFolders)
    \/ \E uri \in URIs, languageId \in LanguageIds, text \in Texts :
          DidOpen(uri, languageId, text)
    \/ \E uri \in URIs, text \in Texts : DidChange(uri, text)
    \/ \E uri \in URIs : DidClose(uri)
    \/ \E settings \in SettingsValues : DidChangeConfiguration(settings)
    \/ \E uri \in URIs, linenr \in 0..MaxLine, character \in 0..MaxChar :
          Completion(uri, linenr, character)

(* The server as it runs: no handler calls getDocumentSettings *)
Spec == Init /\ [][Next]_vars

NextStore == Next \/ \E resource \in URIs : GetDocumentSettings(resource)

(* The server together with callers of the settings-store function *)
SpecStore == Init /\ [][NextStore]_vars

----------------------------------------------------------------------------
(* Vocabulary of the properties.  A completion step changes only msg,      *)
(* response, console and extractCalls, so in the state it leaves the       *)
(* documents and the settings are those the handler read.                  *)

IsCompletion == msg.method = "textDocument/completion"
Tracked == msg.uri \in DOMAIN documents
ReqLanguageId == documents[msg.uri].languageId
ReqLine == LineAt(documents[msg.uri].text, msg.line)

Members(list) == {list.items[i] : i \in 1..Len(list.items)}
HasHtmlList == globalSettings # Null /\ globalSettings.html_filetypes # Undefined
HasCssList == globalSettings # Null /\ globalSettings.css_filetypes # Undefined
InHtmlFiletypes == HasHtmlList /\ ReqLanguageId \in Members(globalSettings.html_filetypes)
InCssFiletypes == HasCssList /\ ReqLanguageId \in Members(globalSettings.css_filetypes)

Attempted == {extractCalls[i].type : i \in 1..Len(extractCalls)}
Items == response.result
ItemsOf(type) == {i \in 1..Len(Items) : Items[i].textEdit.newText.type = type}

OptsOf(type) == IF type = "stylesheet" THEN StylesheetOpts ELSE NoOpts
Extracted(type) == extract(ReqLine, msg.character, OptsOf(type))
Extracts(type) == Extracted(type) # Undefined
ExpansionFails(type) ==
    Extracts(type) /\ SnippetFor(OptsOf(type), Extracted(type).abbreviation).threw
Expands(type) ==
    Extracts(type) /\ ~SnippetFor(OptsOf(type), Extracted(type).abbreviation).threw
Other(type) == IF type = "markup" THEN "stylesheet" ELSE "markup"
Grammars == {"markup", "stylesheet"}

----------------------------------------------------------------------------
(* C1: every completion request is answered with a list of zero or more    *)
(* completion items; no error escapes the handler, whatever the settings,  *)
(* the document table or the engine's outcome.                             *)
C1_AlwaysAList ==
    IsCompletion =>
        /\ DOMAIN response = {"result"}
        /\ Len(Items) >= 0
        /\ \A i \in 1..Len(Items) : Items[i].kind = "Snippet"

(* an error was raised while handling the request and the reply is still a list *)
C1_Witness ==
    /\ IsCompletion /\ Tracked
    /\ globalSettings = Null
    /\ console # <<>>
    /\ response = [result |-> <<>>]

(* C2 as stated: markup is attempted iff the language id is in            *)
(* html_filetypes and stylesheet iff it is in css_filetypes; with the id   *)
(* in neither list extract is never called and the reply is empty.         *)
C2_Original ==
    (IsCompletion /\ Tracked) =>
        /\ ("markup" \in Attempted) <=> InHtmlFiletypes
        /\ ("stylesheet" \in Attempted) <=> InCssFiletypes
        /\ (~InHtmlFiletypes /\ ~InCssFiletypes) =>
               (extractCalls = <<>> /\ Items = <<>>)

(* C2 amended: the same, for a settings value that carries both lists.     *)
C2_RoutingWithBothLists ==
    (IsCompletion /\ Tracked /\ HasHtmlList /\ HasCssList) =>
        /\ ("markup" \in Attempted) <=> InHtmlFiletypes
        /\ ("stylesheet" \in Attempted) <=> InCssFiletypes
        /\ (~InHtmlFiletypes /\ ~InCssFiletypes) =>
               (extractCalls = <<>> /\ Items = <<>>)

(* a request routed to markup only, through a list that names the id first *)
C2_Witness ==
    /\ IsCompletion /\ Tracked /\ HasHtmlList /\ HasCssList
    /\ ReqLanguageId = "html"
    /\ globalSettings.html_filetypes = Array(<<"html", "css">>)
    /\ globalSettings.css_filetypes = Array(<<"css">>)
    /\ Attempted = {"markup"}

(* C3: a reply holds at most two items and at most one per grammar; a      *)
(* document whose language id is in both lists gets two items, one of each *)
(* grammar, exactly when both grammars extract and expand an abbreviation. *)
C3_AtMostOnePerGrammar ==
    IsCompletion =>
        /\ Len(Items) <= 2
        /\ \A type \in Grammars : Cardinality(ItemsOf(type)) <= 1
        /\ (Tracked /\ InHtmlFiletypes /\ InCssFiletypes) =>
               /\ (Len(Items) = 2) <=> (Expands("markup") /\ Expands("stylesheet"))
               /\ (Len(Items) = 2) =>
                      (ItemsOf("markup") = {1} /\ ItemsOf("stylesheet") = {2})

(* a document routed to both grammars gets two items *)
C3_Witness ==
    /\ IsCompletion /\ Tracked /\ InHtmlFiletypes /\ InCssFiletypes
    /\ Len(Items) = 2

(* C4: when the expansion of one grammar's abbreviation raises, the error  *)
(* is logged, that grammar yields no item, and the other grammar's attempt *)
(* still runs and its item, if it produces one, is in the reply.           *)
C4_ExpansionFailureContained ==
    \A type \in Grammars :
        (IsCompletion /\ Tracked /\ InHtmlFiletypes /\ InCssFiletypes
            /\ ExpansionFails(type)) =>
            /\ \E i \in 1..Len(console) : console[i] = "ERR: Error: Unexpected character"
            /\ ItemsOf(type) = {}
            /\ Other(type) \in Attempted
            /\ Expands(Other(type)) => Cardinality(ItemsOf(Other(type))) = 1

(* markup expansion raised and the stylesheet item is in the reply *)
C4_Witness ==
    /\ IsCompletion /\ Tracked /\ InHtmlFiletypes /\ InCssFiletypes
    /\ ExpansionFails("markup")
    /\ Len(Items) = 1 /\ ItemsOf("stylesheet") = {1}

(* C5: the range of every item's text edit lies on the request's line and  *)
(* starts and ends at the start offset of the extracted abbreviation.      *)
C5_ZeroWidthRange ==
    (IsCompletion /\ Tracked) =>
        \A i \in 1..Len(Items) :
            LET range == Items[i].textEdit.range
                start == Extracted(Items[i].textEdit.newText.type).start
            IN /\ range.start.line = msg.line
               /\ range.end.line = msg.line
               /\ range.start.character = start
               /\ range.end.character = start

(* an item whose abbreviation starts after column 0 and ends before the cursor *)
C5_Witness ==
    /\ IsCompletion /\ Tracked /\ Len(Items) > 0
    /\ Items[1].textEdit.range.end.character = 1
    /\ msg.character = 2

(* C6: label and detail of every item are the extracted abbreviation, the  *)
(* new text is the snippet rendering of that abbreviation under the        *)
(* grammar attempted, and format and kind are both snippet.                *)
C6_ItemFields ==
    (IsCompletion /\ Tracked) =>
        \A i \in 1..Len(Items) :
            \E type \in Attempted :
                LET abbreviation == Extracted(type).abbreviation
                IN /\ Items[i].label = abbreviation
                   /\ Items[i].detail = abbreviation
                   /\ Items[i].textEdit.newText =
                          [fn |-> IF type = "stylesheet" THEN "stringifyStylesheet"
                                  ELSE "stringifyMarkup",
                           type |-> type,
                           abbreviation |-> abbreviation,
                           field |-> SnippetField]
                   /\ (i = 1 /\ Len(Items) = 2) => type = "markup"
                   /\ (i = 2) => type = "stylesheet"
                   /\ Items[i].insertTextFormat = "Snippet"
                   /\ Items[i].kind = "Snippet"

(* a reply with a stylesheet item *)
C6_Witness ==
    /\ IsCompletion /\ Tracked /\ Len(Items) > 0
    /\ Items[Len(Items)].textEdit.newText.fn = "stringifyStylesheet"
    /\ Items[Len(Items)].label = <<"%">>

C8_CloseDropsEntry ==
    [][ /\ \A uri \in URIs :
              (uri \in DOMAIN documents /\ uri \notin DOMAIN documents') =>
                  /\ uri \notin DOMAIN documentSettings'
                  /\ \A other \in URIs \ {uri} :
                         /\ (other \in DOMAIN documentSettings) <=>
                                (other \in DOMAIN documentSettings')
                         /\ other \in DOMAIN documentSettings =>
                                documentSettings'[other] = documentSettings[other]
        /\ (msg'.method = "textDocument/completion") =>
               documentSettings' = documentSettings
      ]_vars

(* a document with a cache entry was closed while another entry stayed *)
C8_Witness ==
    /\ msg.method = "textDocument/didClose"
    /\ issued = 2
    /\ Cardinality(DOMAIN documentSettings) = 1
    /\ msg.uri \notin DOMAIN documentSettings

(* C9: a completion request for a document the sync layer does not track   *)
(* logs one error and returns the empty list without calling extract.      *)
C9_UntrackedDocument ==
    (IsCompletion /\ ~Tracked) =>
        /\ console = <<"ERR: failed to find document">>
        /\ Items = <<>>
        /\ extractCalls = <<>>

(* a request for a document that was opened and closed again *)
C9_Witness ==
    /\ IsCompletion /\ ~Tracked
    /\ DOMAIN documents = URIs \ {msg.uri}
    /\ Len(console) = 1

(* C10 as stated: when extract finds no abbreviation for every grammar     *)
(* attempted on the requested line of a document, the reply is empty and   *)
(* nothing is logged.                                                      *)
C10_Original ==
    (IsCompletion /\ Tracked /\ \A i \in 1..Len(extractCalls) :
                         extract(extractCalls[i].line, extractCalls[i].char,
                                 OptsOf(extractCalls[i].type)) = Undefined) =>
        (Items = <<>> /\ console = <<>>)

(* C10 amended: the same, for a settings value that carries both lists.    *)
C10_SilentMiss ==
    (IsCompletion /\ Tracked /\ HasHtmlList /\ HasCssList
        /\ \A i \in 1..Len(extractCalls) :
               extract(extractCalls[i].line, extractCalls[i].char,
                       OptsOf(extractCalls[i].type)) = Undefined) =>
        (Items = <<>> /\ console = <<>>)

(* the empty line with the cursor at offset 0, attempted by both grammars *)
C10_Witness ==
    /\ IsCompletion /\ Tracked /\ HasHtmlList /\ HasCssList
    /\ ReqLine = <<>> /\ msg.character = 0
    /\ Attempted = Grammars
    /\ Items = <<>> /\ console = <<>>

----------------------------------------------------------------------------
(* Characters an abbreviation may start or continue with *)
Punctuation == {">", ")", "]", "}", "@", "*", "$", "+"}
LowerCase ==
    {"a", "b", "c", "d", "e", "f", "g", "h", "i", "j", "k", "l", "m",
     "n", "o", "p", "q", "r", "s", "t", "u", "v", "w", "x", "y", "z"}
UpperCase ==
    {"A", "B", "C", "D", "E", "F", "G", "H", "I", "J", "K", "L", "M",
     "N", "O", "P", "Q", "R", "S", "T", "U", "V", "W", "X", "Y", "Z"}
Digits == {"0", "1", "2", "3", "4", "5", "6", "7", "8", "9"}
Advertised ==
    LET list == response.capabilities.completionProvider.triggerCharacters
    IN {list[i] : i \in 1..Len(list)}

(* C11: the trigger characters advertised in the initialize result contain *)
(* the eight structural punctuation characters and every alphanumeric      *)
(* character: every letter in either case and every digit.                 *)
C11_TriggerCharacters ==
    (msg.method = "initialize") =>
        (Punctuation \cup LowerCase \cup UpperCase \cup Digits) \subseteq Advertised

(* a cache entry disappears only in the close step of its document *)
RemovedOnlyByClose ==
    \A uri \in URIs :
        (uri \in DOMAIN documentSettings /\ uri \notin DOMAIN documentSettings') =>
            (msg'.method = "textDocument/didClose" /\ msg'.uri = uri)

(* C12: with configuration pull supported, a completion request for a      *)
(* tracked document leaves a cache entry for that document, and an entry   *)
(* is never removed except by the close notification of its document.      *)
C12_LazyCacheEntry ==
    [][ /\ (msg'.method = "textDocument/completion"
              /\ msg'.uri \in DOMAIN documents'
              /\ hasConfigurationCapability') =>
               msg'.uri \in DOMAIN documentSettings'
        /\ RemovedOnlyByClose
      ]_vars

(* every entry of the cache but the one of uri is as it was *)
OthersKept(uri) ==
    \A other \in URIs \ {uri} :
        /\ (other \in DOMAIN documentSettings) <=> (other \in DOMAIN documentSettings')
        /\ other \in DOMAIN documentSettings =>
               documentSettings'[other] = documentSettings[other]

(* C13: a lookup returns the cached retrieval if there is one; else, with  *)
(* configuration pull supported, it sends exactly one request scoped to    *)
(* the document and caches it; else it returns the process-wide settings   *)
(* and inserts nothing.  Entries stay until the close of their document,   *)
(* so between two closes at most one request is sent per document.         *)
C13_Lookup ==
    [][ /\ (msg'.method = "getDocumentSettings") =>
               LET uri == msg'.uri
               IN IF uri \in DOMAIN documentSettings
                  THEN /\ response'.thenable = documentSettings[uri]
                       /\ documentSettings' = documentSettings
                       /\ issued' = issued
                  ELSE IF hasConfigurationCapability
                  THEN /\ issued' = issued + 1
                       /\ uri \in DOMAIN documentSettings'
                       /\ documentSettings'[uri] = response'.thenable
                       /\ response'.thenable.scopeUri = uri
                       /\ response'.thenable.request = issued'
                       /\ OthersKept(uri)
                  ELSE /\ response'.thenable = [resolved |-> globalSettings]
                       /\ documentSettings' = documentSettings
                       /\ issued' = issued
        /\ (msg'.method # "getDocumentSettings") => issued' = issued
        /\ RemovedOnlyByClose
      ]_vars

(* a second lookup for a document answered from the cache *)
C13_Witness ==
    /\ msg.method = "getDocumentSettings"
    /\ issued = 2
    /\ response.thenable = Retrieval(msg.uri, 1)
    /\ documentSettings[msg.uri] = Retrieval(msg.uri, 1)

(* C14: a configuration change replaces the process-wide settings and      *)
(* leaves the settings cache, its keys and its entries, as it was.         *)
C14_ConfigurationChangeKeepsCache ==
    [][ (msg'.method = "workspace/didChangeConfiguration") =>
            /\ documentSettings' = documentSettings
            /\ UNCHANGED <<hasConfigurationCapability, documents, issued>>
      ]_vars

(* new settings arrived while a document had a cache entry *)
C14_Witness ==
    /\ msg.method = "workspace/didChangeConfiguration"
    /\ globalSettings = Null
    /\ Cardinality(DOMAIN documentSettings) = 2

(* the lines of the document the request names *)
ReqLines == SplitLines(documents[msg.uri].text)

(* C15: the text handed to extract is the requested line of the document's *)
(* current text and the cursor is a valid offset into it, so every item    *)
(* has 0 <= start <= cursor <= length of the line; also for requests whose *)
(* line or character lies outside the text.                                *)
C15_ValidOffsets ==
    (IsCompletion /\ Tracked) =>
        /\ \A i \in 1..Len(extractCalls) :
               /\ msg.line + 1 \in 1..Len(ReqLines)
               /\ extractCalls[i].line = ReqLines[msg.line + 1]
               /\ extractCalls[i].char \in 0..Len(extractCalls[i].line)
        /\ \A i \in 1..Len(Items) :
               LET start == Items[i].textEdit.range.start.character
               IN /\ 0 <= start
                  /\ start <= msg.character
                  /\ msg.character <= Len(ReqLine)

(* the document table reduced to the document a request names *)
OnlyRequested(docs, uri) == [u \in DOMAIN docs \cap {uri} |-> docs[u]]

RoutedBy(settings, languageId) ==
    LET hasHtml == settings # Null /\ settings.html_filetypes # Undefined
        hasCss == settings # Null /\ settings.css_filetypes # Undefined
    IN {type \in Grammars :
           \/ /\ type = "markup"
              /\ hasHtml /\ languageId \in Members(settings.html_filetypes)
           \/ /\ type = "stylesheet"
              /\ hasHtml /\ hasCss /\ languageId \in Members(settings.css_filetypes)}

C18_MalformedSettings ==
    IsCompletion =>
        /\ ~(HasHtmlList /\ HasCssList) =>
               /\ Items = <<>>
               /\ console # <<>>
               /\ console[Len(console)] =
                      IF Tracked THEN "ERR: " \o TypeError
                      ELSE "ERR: failed to find document"
        /\ (HasHtmlList /\ HasCssList) =>
               \A i \in 1..Len(console) : console[i] # "ERR: " \o TypeError

(* markup found and expanded an abbreviation, and the reply is empty *)
C18_Witness ==
    /\ IsCompletion /\ Tracked
    /\ HasHtmlList /\ ~HasCssList
    /\ InHtmlFiletypes
    /\ Expands("markup")
    /\ Items = <<>>
    /\ console = <<"ERR: " \o TypeError>>

====
